---------------------------- MODULE Spec2Model ----------------------------
(***************************************************************************)
(* State-machine model of rpi-monitor.py (ufankhau/rpi-monitor): the       *)
(* startup sequence, the MQTT connection handshake, the discovery          *)
(* announcement, the two threading.Timer chains (ALIVE and PERIOD), the    *)
(* report cycle (handle_interrupt / send_status) and the shutdown cleanup. *)
(*                                                                         *)
(* Threads of the program and where they live in the model:                *)
(*   main thread            pc                                             *)
(*   paho network thread    on_connect                                     *)
(*   threading.Timer thread one per started timer: the "st" field of the   *)
(*                          timer's record holds the thread's position     *)
(*   _thread threads        tasks (a bag of started, not yet run threads)  *)
(***************************************************************************)
EXTENDS Integers, Sequences, FiniteSets, Bags, TLC

VARIABLES
    config,                   \* contents of config.ini, as read at 158-201
    opt_stall,                \* --stall command line flag (114)
    pc,                       \* position of the main thread
    procState,                \* "running" | "exited"
    exitCode,                 \* process exit status once procState = "exited"
    connectCalls,             \* number of mqtt_client.connect() calls made
    connAcks,                 \* number of CONNACKs delivered to on_connect
    connResult,               \* outcome of connect(): "none" | "ok" | "raised"
    lastRc,                   \* rc of the last on_connect call, -1 before it
    mqtt_client_connected,    \* global flag (128)
    discIdx,                  \* next entry of the discovery loop (1021-1075)
    periodTimers,             \* every PERIOD threading.Timer object created
    endPeriodTimer,           \* global: index of the timer it refers to
    periodTimeRunningStatus,  \* global flag (1117)
    aliveTimers,              \* every ALIVE threading.Timer object created
    aliveTimer,               \* global: index of the timer it refers to
    aliveTimerRunningStatus,  \* global flag (874)
    reported_first_time,      \* global flag (1118)
    metricsGen,               \* number of completed update_values() refreshes
    refreshedBy,              \* for each of them, the report cycle that ran it
    timesincelastUpdate,      \* seconds since "apt-get update" (763)
    timesincelastUpgrade,     \* seconds since "apt-get upgrade" (786)
    rpi_security,             \* global (248): update and upgrade status
    tasks,                    \* bag of _thread threads started and not yet run
    published,                \* bag of messages handed to mqtt_client.publish
    periodFires,              \* number of PERIOD timer expiries so far
    aliveFires,               \* number of ALIVE timer expiries so far
    nReports,                 \* number of send_status threads started so far
    rpi_mac,                  \* global (233, 659): MAC address, as characters
    uniqID,                   \* global (938), "" before it is set
    retained,                 \* broker: the retained message of each topic
    inbound,                  \* messages sent to the command topics so far
    executed,                 \* shell commands run for inbound messages
    unknownInbound,           \* of inbound, those naming no known command
    warnings,                 \* invalid-command warnings written to the log
    np_x,                     \* next_power_of_two: the argument x
    np_res,                   \* next_power_of_two: res
    np_magnitude,             \* next_power_of_two: magnitude
    np_pc                     \* next_power_of_two: position in the call

vars == << config, opt_stall, pc, procState, exitCode, connectCalls, connAcks,
           connResult, lastRc, mqtt_client_connected, discIdx, periodTimers, endPeriodTimer,
           periodTimeRunningStatus, aliveTimers, aliveTimer,
           aliveTimerRunningStatus, reported_first_time, metricsGen,
           refreshedBy, timesincelastUpdate, timesincelastUpgrade,
           rpi_security, tasks,
           published, periodFires, aliveFires, nReports, rpi_mac, uniqID,
           retained, inbound, executed, unknownInbound, warnings,
           np_x, np_res, np_magnitude, np_pc >>

inputVars ==
    << config, opt_stall, rpi_mac, timesincelastUpdate, timesincelastUpgrade >>
pubVars == << published, retained >>
cmdVars == << inbound, executed, unknownInbound, warnings >>
npVars == << np_x, np_res, np_magnitude, np_pc >>
procVars == << procState, exitCode >>
connVars == << connectCalls, connAcks, connResult, lastRc,
              mqtt_client_connected >>
periodVars == << periodTimers, endPeriodTimer, periodTimeRunningStatus >>
aliveVars == << aliveTimers, aliveTimer, aliveTimerRunningStatus >>

-----------------------------------------------------------------------------
(* Bounds of the model *)

MaxPeriodFires == 1
MaxAliveFires == 2
MaxConnAcks == 2
MaxTimerCalls == 4
MaxAnnounce == 2
MaxInbound == 2

-----------------------------------------------------------------------------
(* Program constants *)

min_interval_in_minutes == 1
max_interval_in_minutes == 20
min_update_days == 1
max_update_days == 7
min_upgrade_days == 1
max_upgrade_days == 14
ALIVE_TIMEOUT_IN_SECONDS == 60

(* Range the specification documents for an update-check interval in hours; *)
(* rpi-monitor.py reads no such option.                                     *)
DocUpdateCheckHours == 4..24

default_interval_in_minutes == 5
default_update_days == 3
default_upgrade_days == 7

IntervalChoices == {0, 1, 5, 20, 21}
UpdateDaysChoices == {0, 3, 8}
UpgradeDaysChoices == {0, 7, 15}
UpdateCheckHoursChoices == {3, 6}

lwt_online_val == "online"
lwt_offline_val == "offline"
LD_MONITOR == "monitor"
LDS_PAYLOAD_NAME == "info"
default_base_topic == "home/nodes"
BaseTopicChoices == { default_base_topic, "site/pi" }
default_discovery_prefix == "homeassistant"
sensor_name == "rpi-host"

(* detectorValues keys in table order, then the binary sensor. *)
detectorValues ==
    << "monitor", "temp_cpu_c", "cpu_load_1m", "cpu_load_5m",
       "ram_used_prcnt", "disk_used" >>
LD_SECURITY_STATUS == "os_security_status"
NumEntities == Len(detectorValues) + 1

(* The parameters of each detectorValues entry (958-1011) that the          *)
(* discovery loop tests or copies; title and icon are display strings.      *)
params ==
    << ("topic_category" :> "sensor" @@ "device_class" :> "timestamp"
          @@ "device_ident" :> "Raspberry Pi Host" @@ "json_attr" :> "yes"
          @@ "json_value" :> "Timestamp"),
       ("topic_category" :> "sensor" @@ "device_class" :> "temperature"
          @@ "unit" :> "C" @@ "json_value" :> "Temp_CPU_c"),
       ("topic_category" :> "sensor" @@ "unit" :> "%"
          @@ "json_value" :> "CPU_Load_1_min"),
       ("topic_category" :> "sensor" @@ "unit" :> "%"
          @@ "json_value" :> "CPU_Load_5_min"),
       ("topic_category" :> "sensor" @@ "unit" :> "%"
          @@ "json_value" :> "RAM_used_prcnt"),
       ("topic_category" :> "sensor" @@ "unit" :> "%"
          @@ "json_value" :> "FS_used_prcnt") >>

(* The category and the key of the i-th announced entity: the sensors of    *)
(* detectorValues, then the binary sensor (1062-1075).                      *)
topic_category(i) ==
    IF i <= Len(detectorValues) THEN params[i]["topic_category"]
    ELSE "binary_sensor"

EntityKey(i) ==
    IF i <= Len(detectorValues) THEN detectorValues[i] ELSE LD_SECURITY_STATUS

-----------------------------------------------------------------------------
(* Topics and messages *)

(* Lines 882 and 1014; config.base_topic is the global base_topic as line    *)
(* 170 leaves it.                                                           *)
lwt_topic == << config.base_topic, "sensor", sensor_name, "status" >>
base_topic == << config.base_topic, "sensor", sensor_name >>
values_topic == base_topic \o << LD_MONITOR >>
security_topic == << "home/nodes", "binary_sensor", sensor_name >>
security_status_topic == security_topic \o << "status" >>

(* Discovery topics built from the category alone, as line 1063 builds the  *)
(* binary sensor's.                                                         *)
discovery_topic_NoKey(i) ==
    << default_discovery_prefix,
       IF i <= Len(detectorValues) THEN "sensor" ELSE "binary_sensor",
       sensor_name, "config" >>

discovery_topic(i) ==
    IF i <= Len(detectorValues)
    THEN << default_discovery_prefix, "sensor", sensor_name,
            detectorValues[i], "config" >>
    ELSE << default_discovery_prefix, "binary_sensor", sensor_name, "config" >>

(* One mqtt_client.publish(topic, payload, qos, retain) call.  The payload  *)
(* is abstracted to its kind (tag), the report cycle that built it (ts) and *)
(* the metrics generation it serialises (gen).                              *)
Msg(topic, tag, ts, gen, qos, retain) ==
    [ topic |-> topic, payload |-> [tag |-> tag, ts |-> ts, gen |-> gen],
      qos |-> qos, retain |-> retain ]

(* A message whose payload is the JSON object "body" *)
WithBody(m, body) ==
    [ topic |-> m.topic,
      payload |-> [ tag |-> m.payload.tag, ts |-> m.payload.ts,
                    gen |-> m.payload.gen, body |-> body ],
      qos |-> m.qos, retain |-> m.retain ]

OnlineMsg == Msg(lwt_topic, lwt_online_val, 0, 0, 0, FALSE)
OfflineMsg(retain) == Msg(lwt_topic, lwt_offline_val, 0, 0, 0, retain)
(* str.lower() on the characters a MAC address is written with *)
Lower(c) ==
    CASE c = "A" -> "a" [] c = "B" -> "b" [] c = "C" -> "c"
      [] c = "D" -> "d" [] c = "E" -> "e" [] c = "F" -> "f"
      [] OTHER -> c

NotColon(c) == c # ":"

(* "".join(chars) *)
RECURSIVE Join(_)
Join(chars) ==
    IF chars = << >> THEN "" ELSE Head(chars) \o Join(Tail(chars))

(* mac_basic without the lower() of line 934 *)
mac_basic_NoLower == SelectSeq(rpi_mac, NotColon)

(* Lines 934-938 *)
mac_basic ==
    SelectSeq([k \in DOMAIN rpi_mac |-> Lower(rpi_mac[k])], NotColon)
mac_left ==
    SubSeq(mac_basic, 1, IF Len(mac_basic) < 6 THEN Len(mac_basic) ELSE 6)
mac_right == SubSeq(mac_basic, 7, Len(mac_basic))
(* Line 938: "RPi-{}Mon{}".format(mac_left, mac_right) *)
FormatUniqID(left, right) == "RPi-" \o Join(left) \o "Mon" \o Join(right)

(* Lines 1015 and 1017 *)
values_topic_rel == << "~", LD_MONITOR >>
activity_topic_rel == << "~", "status" >>

(* Lines 1036-1037: "{{ value_json.<LDS_PAYLOAD_NAME>.<json_value> }}", as  *)
(* the path the template names.                                             *)
val_tpl(i) == << "value_json", LDS_PAYLOAD_NAME, params[i]["json_value"] >>

(* The payload of the i-th sensor's announcement, lines 1024-1058, as the   *)
(* JSON object's keys and values; topics are sequences of segments and      *)
(* val_tpl is the path its template names.  The display strings (name, ic)  *)
(* and the device's model and sw_version are left out.                      *)
SensorPayload(i) ==
    LET p == params[i]
        has(k) == k \in DOMAIN p
    IN  ("uniq_id" :> (uniqID \o "_" \o detectorValues[i]))
        @@ (IF has("device_class") THEN "dev_cla" :> p["device_class"]
            ELSE << >>)
        @@ (IF has("unit") THEN "unit_of_measurement" :> p["unit"] ELSE << >>)
        @@ (IF has("json_value")
            THEN "stat_t" :> values_topic_rel @@ "val_tpl" :> val_tpl(i)
            ELSE << >>)
        @@ ("~" :> base_topic)
        @@ ("pl_avail" :> lwt_online_val)
        @@ ("pl_not_avail" :> lwt_offline_val)
        @@ ("avty_t" :> activity_topic_rel)
        @@ (IF has("json_attr") THEN "json_attr_t" :> values_topic_rel
            ELSE << >>)
        @@ ("dev" :> (IF has("device_ident")
                      THEN "identifiers" :> << uniqID >>
                           @@ "manufacturer" :> "Raspbery Pi (Trading) Ltd."
                           @@ "name" :> p["device_ident"]
                      ELSE "identifiers" :> << uniqID >>))

(* The payload of the binary sensor's announcement, lines 1064-1074 *)
BinarySensorPayload ==
    ("uniq_id" :> (uniqID \o "_" \o LD_SECURITY_STATUS))
    @@ ("dev_cla" :> "safety")
    @@ ("payload_on" :> "on")
    @@ ("payload_off" :> "off")
    @@ ("state_topic" :> security_status_topic)
    @@ ("json_attr_t" :> security_topic)
    @@ ("dev" :> ("identifiers" :> << uniqID >>))

DiscoveryPayload(i) ==
    IF i <= Len(detectorValues) THEN SensorPayload(i) ELSE BinarySensorPayload

(* An announcement whose payload differs from one publication to the next, *)
(* as it would with a timestamp or a counter in it.                         *)
DiscoveryMsg_Counted(i) ==
    WithBody(Msg(discovery_topic(i), "config", 0, BagCardinality(published),
                 1, TRUE),
             DiscoveryPayload(i))

DiscoveryMsg(i) ==
    WithBody(Msg(discovery_topic(i), "config", 0, 0, 1, TRUE),
             DiscoveryPayload(i))
(* Keys of the snapshot, 1124-1155 *)
SCRIPT_TIMESTAMP == "Timestamp"
RPI_HOSTNAME == "Hostname"
RPI_UPTIME == "Up_time"
RPI_FS_USED == "FS_used_prcnt"
RPI_RAM_USED == "RAM_used_prcnt"
RPI_CPU_TEMP == "Temp_CPU_c"
RPI_CPU_USED_1M == "CPU_Load_1_min"
RPI_CPU_USED_5M == "CPU_Load_5_min"
SCRIPT_REPORT_INTERVAL == "Reporter_Interval [min]"

(* The value of the metric global "name" after gen runs of update_values() *)
MetricValue(name, gen) == [ metric |-> name, gen |-> gen ]

(* rpiData of send_status (1162-1194) for the report cycle ts, built from   *)
(* the metric globals as they are after gen refreshes: the timestamp, the   *)
(* dynamic metrics, and of the static entries the hostname and the          *)
(* reporting interval.                                                      *)
rpiData(ts, gen) ==
    (SCRIPT_TIMESTAMP :> ts)
    @@ (RPI_HOSTNAME :> sensor_name)
    @@ (RPI_UPTIME :> MetricValue("rpi_uptime", gen))
    @@ (RPI_FS_USED :> MetricValue("rpi_fs_used", gen))
    @@ (RPI_RAM_USED :> MetricValue("rpi_ram_used", gen))
    @@ (RPI_CPU_TEMP :> MetricValue("rpi_cpu_temp", gen))
    @@ (RPI_CPU_USED_1M :> MetricValue("rpi_cpu_usage_1m", gen))
    @@ (RPI_CPU_USED_5M :> MetricValue("rpi_cpu_usage_5m", gen))
    @@ (SCRIPT_REPORT_INTERVAL :> config.interval_in_minutes)

(* rpiData published as it is, without the envelope of 1196-1197 *)
rpiTopDict_Flat(ts, gen) == rpiData(ts, gen)

(* rpiTopDict, 1196-1197: rpiData under the single key LDS_PAYLOAD_NAME *)
rpiTopDict(ts, gen) == LDS_PAYLOAD_NAME :> rpiData(ts, gen)

SnapshotMsg(ts, gen) ==
    WithBody(Msg(values_topic, LDS_PAYLOAD_NAME, ts, gen, 1, FALSE),
             rpiTopDict(ts, gen))
(* Lines 1143-1144: rpi_security[0][0] and rpi_security[1][0] *)
RPI_OS_UPDATE == "OS Update Status"
RPI_OS_UPGRADE == "OS Upgrade Status"

(* rpiSecurity of send_status, 1202-1204 *)
rpiSecurity ==
    (RPI_OS_UPDATE :> rpi_security[1]) @@ (RPI_OS_UPGRADE :> rpi_security[2])

(* The on/off value decided by the update status alone *)
rpi_security_status_UpdateOnly ==
    IF rpi_security[1] # "safe" THEN "on" ELSE "off"

(* rpi_security_status of send_status, 1209-1218 *)
rpi_security_status ==
    IF \E i \in DOMAIN rpi_security : rpi_security[i] # "safe"
    THEN "on" ELSE "off"

SecurityMsg(ts, gen) ==
    WithBody(Msg(security_topic, "security", ts, gen, 1, FALSE), rpiSecurity)
SecurityStatusMsg(ts, gen) ==
    Msg(security_status_topic, rpi_security_status, ts, gen, 0, FALSE)

(* A thread started with _thread.start_new_thread(fn, args). *)
PublishTask(m) == [ fn |-> "publish", ts |-> 0, msg |-> m ]
SendStatusTask(ts) == [ fn |-> "send_status", ts |-> ts, msg |-> OnlineMsg ]

(* The broker keeps the last message published to a topic with the retain  *)
(* flag set, in place of the one it kept for that topic before.             *)
Retain(store, m) ==
    IF m.retain
    THEN { r \in store : r.topic # m.topic } \cup {m}
    ELSE store

Publish(m) ==
    /\ published' = published (+) SetToBag({m})
    /\ retained' = Retain(retained, m)

-----------------------------------------------------------------------------
(* Timer objects *)

Timer(st, interval) == [ st |-> st, interval |-> interval ]

(* threading.Timer.cancel(): a timer that has not fired yet never will; a   *)
(* timer whose function is running or has returned is not affected.         *)
Cancel(t) ==
    IF t.st \in {"new", "pending"} THEN [t EXCEPT !.st = "cancelled"] ELSE t

(* threading.Timer.cancel() on the timer that "ref" refers to *)
CancelRef(timers, ref) == [timers EXCEPT ![ref] = Cancel(@)]

Fired(t) == t.st \notin {"new", "pending", "cancelled"}

Pending(timers) == { i \in DOMAIN timers : timers[i].st = "pending" }

(* stopPeriodTimer(), 1101-1106, applied to the timer list "timers" *)
stopPeriodTimer(timers) ==
    /\ periodTimers' = CancelRef(timers, endPeriodTimer)
    /\ periodTimeRunningStatus' = FALSE
    /\ UNCHANGED endPeriodTimer

(* startPeriodTimer() without the stopPeriodTimer() call of line 1094. *)
startPeriodTimer_NoCancel(timers) ==
    /\ periodTimers' =
           Append(timers, Timer("pending", config.interval_in_minutes * 60))
    /\ endPeriodTimer' = Len(timers) + 1
    /\ periodTimeRunningStatus' = TRUE

(* startPeriodTimer(), 1091-1098: stopPeriodTimer() cancels the timer the   *)
(* global refers to, then the global is bound to a new, started timer.      *)
startPeriodTimer(timers) ==
    /\ periodTimers' =
           Append(CancelRef(timers, endPeriodTimer),
                  Timer("pending", config.interval_in_minutes * 60))
    /\ endPeriodTimer' = Len(timers) + 1
    /\ periodTimeRunningStatus' = TRUE

(* stopAliveTimer(), 859-864: line 863 assigns aliveTimerRunningsStatus, a  *)
(* misspelt name and so a local: the global flag is left as it was.         *)
stopAliveTimer(timers) ==
    /\ aliveTimers' = CancelRef(timers, aliveTimer)
    /\ UNCHANGED << aliveTimer, aliveTimerRunningStatus >>

(* startAliveTimer(), 849-856: the function declares aliveTimeout and       *)
(* aliveTimerRunningStatus global, not aliveTimer, so line 853 binds a      *)
(* local; the global aliveTimer keeps referring to the timer of line 872,   *)
(* which is the one stopAliveTimer() cancels.                               *)
startAliveTimer(timers) ==
    /\ aliveTimers' =
           Append(CancelRef(timers, aliveTimer),
                  Timer("pending", ALIVE_TIMEOUT_IN_SECONDS))
    /\ aliveTimer' = aliveTimer
    /\ aliveTimerRunningStatus' = TRUE

-----------------------------------------------------------------------------
(* Initial state: the process has been started with some config.ini and    *)
(* command line; the two module-level Timer objects (872, 1115) exist and   *)
(* have not been started.  InitWith(C) starts the program with a config.ini *)
(* drawn from C.                                                            *)

(* The MAC address "ip link show" (644) prints for the first interface, as  *)
(* the sequence of its characters.                                          *)
DefaultMac ==
    << "b", "8", ":", "2", "7", ":", "e", "b", ":",
       "1", "2", ":", "3", "4", ":", "5", "6" >>

(* The same address as "ip" could never print it (upper case), another     *)
(* device's address, and no address: without eth0 and wlan0 rpi_mac keeps   *)
(* the '' of line 233.                                                      *)
UpperMac ==
    << "B", "8", ":", "2", "7", ":", "E", "B", ":",
       "1", "2", ":", "3", "4", ":", "5", "6" >>
OtherMac ==
    << "d", "c", ":", "a", "6", ":", "3", "2", ":",
       "0", "0", ":", "0", "f", ":", "9", "e" >>
NoMac == << >>
Macs == { DefaultMac, UpperMac, OtherMac, NoMac }

Configs ==
    [ exists : BOOLEAN,
      interval_in_minutes : IntervalChoices,
      OS_update_days : UpdateDaysChoices,
      OS_upgrade_days : UpgradeDaysChoices,
      update_check_hours : UpdateCheckHoursChoices,
      base_topic : BaseTopicChoices ]

(* config.ini files that leave every option but interval_in_minutes at its  *)
(* default: the default interval and one outside [1, 20].                   *)
DefaultConfigs ==
    { c \in Configs :
        /\ c.exists
        /\ c.interval_in_minutes \in {default_interval_in_minutes, 21}
        /\ c.OS_update_days = default_update_days
        /\ c.OS_upgrade_days = default_upgrade_days
        /\ c.update_check_hours = 6
        /\ c.base_topic = default_base_topic }

(* config.ini files that set base_topic and leave the rest at its default *)
TopicConfigs ==
    { c \in Configs :
        /\ c.exists
        /\ c.interval_in_minutes = default_interval_in_minutes
        /\ c.OS_update_days = default_update_days
        /\ c.OS_upgrade_days = default_upgrade_days
        /\ c.update_check_hours = 6 }

(* Seconds since the last update and the last upgrade: a day each, and the  *)
(* values at and just above the default thresholds.                         *)
DefaultAges == << 86400, 86400 >>
Ages ==
    { default_update_days * 86400, default_update_days * 86400 + 1 }
      \X { default_upgrade_days * 86400, default_upgrade_days * 86400 + 1 }

InitFrom(C, M, A) ==
    /\ config \in C
    /\ rpi_mac \in M
    /\ \E a \in A : timesincelastUpdate = a[1] /\ timesincelastUpgrade = a[2]
    /\ rpi_security = << "safe", "safe" >>
    /\ uniqID = ""
    /\ retained = {}
    /\ inbound = 0
    /\ executed = 0
    /\ unknownInbound = 0
    /\ warnings = 0
    /\ np_x = 0
    /\ np_res = 0
    /\ np_magnitude = 0
    /\ np_pc = "idle"
    /\ opt_stall \in BOOLEAN
    /\ pc = "config"
    /\ procState = "running"
    /\ exitCode = 0
    /\ connectCalls = 0
    /\ connAcks = 0
    /\ connResult = "none"
    /\ lastRc = -1
    /\ mqtt_client_connected = FALSE
    /\ discIdx = 1
    /\ periodTimers = << Timer("new", config.interval_in_minutes * 60) >>
    /\ endPeriodTimer = 1
    /\ periodTimeRunningStatus = FALSE
    /\ aliveTimers = << Timer("new", ALIVE_TIMEOUT_IN_SECONDS) >>
    /\ aliveTimer = 1
    /\ aliveTimerRunningStatus = FALSE
    /\ reported_first_time = FALSE
    /\ metricsGen = 0
    /\ refreshedBy = << >>
    /\ tasks = EmptyBag
    /\ published = EmptyBag
    /\ periodFires = 0
    /\ aliveFires = 0
    /\ nReports = 0

InitOf(C, M) == InitFrom(C, M, {DefaultAges})

InitWith(C) == InitOf(C, {DefaultMac})

Init == InitWith(DefaultConfigs)

Running == procState = "running"

(* sys.exit(code) on the main thread before any other thread exists, or     *)
(* os._exit(code): the process ends.                                        *)
Exit(code) ==
    /\ procState' = "exited"
    /\ exitCode' = code

-----------------------------------------------------------------------------
(* Main thread: startup *)

(* The range checks without the upper bound on interval_in_minutes. *)
ConfigValid_NoIntervalMax ==
    /\ config.exists
    /\ ~ (config.OS_update_days < min_update_days
            \/ config.OS_update_days > max_update_days)
    /\ ~ (config.OS_upgrade_days < min_upgrade_days
            \/ config.OS_upgrade_days > max_upgrade_days)
    /\ ~ (config.interval_in_minutes < min_interval_in_minutes)

ConfigValid ==
    /\ config.exists
    /\ ~ (config.OS_update_days < min_update_days
            \/ config.OS_update_days > max_update_days)
    /\ ~ (config.OS_upgrade_days < min_upgrade_days
            \/ config.OS_upgrade_days > max_upgrade_days)
    /\ ~ (config.interval_in_minutes < min_interval_in_minutes
            \/ config.interval_in_minutes > max_interval_in_minutes)

(* Lines 158-227: read config.ini and check the ranges. *)
LoadConfiguration ==
    /\ Running /\ pc = "config"
    /\ IF ConfigValid
       THEN pc' = "connect" /\ UNCHANGED << procState, exitCode >>
       ELSE pc' = "exit" /\ Exit(1)
    /\ UNCHANGED << inputVars, cmdVars, npVars, refreshedBy, rpi_security, uniqID, connVars, periodVars, aliveVars, discIdx,
                    reported_first_time, metricsGen, tasks, pubVars,
                    periodFires, aliveFires, nReports >>

(* Lines 905-915: mqtt_client.connect(); on an exception sys.exit(1), else  *)
(* publish "online" and start the network loop thread.                      *)
MqttConnect(ok) ==
    /\ Running /\ pc = "connect"
    /\ connectCalls' = connectCalls + 1
    /\ connResult' = IF ok THEN "ok" ELSE "raised"
    /\ IF ok
       THEN /\ Publish(OnlineMsg)
            /\ pc' = "wait"
            /\ UNCHANGED << procVars >>
       ELSE /\ pc' = "exit" /\ Exit(1)
            /\ UNCHANGED pubVars
    /\ UNCHANGED << inputVars, cmdVars, npVars, refreshedBy, rpi_security, uniqID, periodVars, aliveVars, connAcks, lastRc,
                    mqtt_client_connected, discIdx, reported_first_time,
                    metricsGen, tasks, periodFires, aliveFires, nReports >>

(* on_connect that records a refused connection and returns. *)
on_connect_NoExit(rc) ==
    /\ Running /\ connResult = "ok"
    /\ connAcks < MaxConnAcks
    /\ connAcks' = connAcks + 1
    /\ lastRc' = rc
    /\ mqtt_client_connected' = (rc = 0)
    /\ UNCHANGED << inputVars, cmdVars, npVars, refreshedBy, rpi_security, uniqID, procVars, periodVars, aliveVars, pc,
                    connectCalls, connResult, discIdx, reported_first_time,
                    metricsGen, tasks, pubVars, periodFires, aliveFires,
                    nReports >>

(* on_connect(client, userdata, flags, rc), 132-148, run by the network     *)
(* loop thread (started at 915) for each CONNACK: the one answering the     *)
(* connect of 906 and those of the client's later reconnects.               *)
on_connect(rc) ==
    /\ Running /\ connResult = "ok"
    /\ connAcks < MaxConnAcks
    /\ connAcks' = connAcks + 1
    /\ lastRc' = rc
    /\ IF rc = 0
       THEN /\ mqtt_client_connected' = TRUE
            /\ UNCHANGED << procVars >>
       ELSE /\ mqtt_client_connected' = FALSE
            /\ Exit(1)
    /\ UNCHANGED << inputVars, cmdVars, npVars, refreshedBy, rpi_security, uniqID, periodVars, aliveVars, pc, connectCalls,
                    connResult, discIdx, reported_first_time, metricsGen,
                    tasks, pubVars, periodFires, aliveFires, nReports >>

(* Startup that goes on after connect() without the wait loop of 917-919 *)
WaitConnected_NoWait ==
    /\ Running /\ pc = "wait"
    /\ startAliveTimer(aliveTimers)
    /\ uniqID' = FormatUniqID(mac_left, mac_right)
    /\ pc' = "discovery"
    /\ UNCHANGED << inputVars, cmdVars, npVars, refreshedBy, rpi_security, procVars, connVars, periodVars, discIdx,
                    reported_first_time, metricsGen, tasks, pubVars,
                    periodFires, aliveFires, nReports >>

(* Lines 917-938: leave the wait loop once the flag is set, then            *)
(* startAliveTimer(); getNetworkIFsUsingIP() has filled in rpi_mac, from    *)
(* which uniqID is built.                                                   *)
WaitConnected ==
    /\ Running /\ pc = "wait"
    /\ mqtt_client_connected # FALSE
    /\ startAliveTimer(aliveTimers)
    /\ uniqID' = FormatUniqID(mac_left, mac_right)
    /\ pc' = "discovery"
    /\ UNCHANGED << inputVars, cmdVars, npVars, refreshedBy, rpi_security, procVars, connVars, periodVars, discIdx,
                    reported_first_time, metricsGen, tasks, pubVars,
                    periodFires, aliveFires, nReports >>

(* The discovery pass that ends with the sensor table and leaves out the    *)
(* binary sensor announcement.                                              *)
PublishDiscovery_SensorsOnly ==
    /\ Running /\ pc = "discovery"
    /\ Publish(DiscoveryMsg(discIdx))
    /\ discIdx' = discIdx + 1
    /\ pc' = IF discIdx = Len(detectorValues)
             THEN "afterMQTTConnect" ELSE "discovery"
    /\ UNCHANGED << inputVars, cmdVars, npVars, refreshedBy, rpi_security, uniqID, procVars, connVars, periodVars, aliveVars,
                    reported_first_time, metricsGen, tasks, periodFires,
                    aliveFires, nReports >>

(* Lines 1021-1075: one pass of the sensor loop, or, past the table, the    *)
(* binary sensor announcement.                                              *)
PublishDiscovery ==
    /\ Running /\ pc = "discovery"
    /\ Publish(DiscoveryMsg(discIdx))
    /\ discIdx' = discIdx + 1
    /\ pc' = IF discIdx = NumEntities THEN "afterMQTTConnect" ELSE "discovery"
    /\ UNCHANGED << inputVars, cmdVars, npVars, refreshedBy, rpi_security, uniqID, procVars, connVars, periodVars, aliveVars,
                    reported_first_time, metricsGen, tasks, periodFires,
                    aliveFires, nReports >>

-----------------------------------------------------------------------------
(* The report cycle *)

(* Lines 194 and 201 *)
maxTimesinceUpdate == config.OS_update_days * 24 * 60 * 60
maxTimesinceUpgrade == config.OS_upgrade_days * 24 * 60 * 60

(* The values getLastUpdateDate() (767-769) and getLastUpgradeDate()        *)
(* (790-792) leave in rpi_security[0][1] and rpi_security[1][1]             *)
NewSecurity ==
    << IF timesincelastUpdate > maxTimesinceUpdate THEN "warning" ELSE "safe",
       IF timesincelastUpgrade > maxTimesinceUpgrade THEN "warning"
       ELSE "safe" >>

(* update_values(), 1275-1281.  Every query shells out and parses the      *)
(* output with no exception handler; getUptime() (724-726) divides a float  *)
(* by rpi_nbrCPUs, which line 826 sets to the string lscpu printed.  The    *)
(* call either completes (ok) or raises, before, between or after the two   *)
(* security queries.                                                        *)
update_values(ok) ==
    /\ metricsGen' = IF ok THEN metricsGen + 1 ELSE metricsGen
    /\ rpi_security' \in
          IF ok THEN { NewSecurity }
          ELSE { rpi_security,
                 << NewSecurity[1], rpi_security[2] >>,
                 NewSecurity }

(* The condition of line 1292 ("and" binds tighter than "or"). *)
ShouldReport ==
    opt_stall = FALSE \/ (reported_first_time = FALSE /\ opt_stall = TRUE)

(* Line 1294: _thread.start_new_thread(send_status, (current_timestamp, '')) *)
StartSendStatus(ts) ==
    /\ tasks' = tasks (+) SetToBag({SendStatusTask(ts)})
    /\ nReports' = nReports + 1

(* afterMQTTConnect(), 1301-1306: startPeriodTimer(), then                  *)
(* handle_interrupt(0) on the main thread.                                  *)
afterMQTTConnect ==
    /\ Running /\ pc = "afterMQTTConnect"
    /\ startPeriodTimer(periodTimers)
    /\ pc' = "hi_update"
    /\ UNCHANGED << inputVars, cmdVars, npVars, refreshedBy, rpi_security, uniqID, procVars, connVars, aliveVars, discIdx,
                    reported_first_time, metricsGen, tasks, pubVars,
                    periodFires, aliveFires, nReports >>

(* handle_interrupt(0) on the main thread, line 1291.  An exception leaves  *)
(* the module body at line 1309, before the try of line 1314: the main      *)
(* thread ends without the cleanup.                                         *)
Main_update_values(ok) ==
    /\ Running /\ pc = "hi_update"
    /\ update_values(ok)
    /\ refreshedBy' = IF ok THEN Append(refreshedBy, 0) ELSE refreshedBy
    /\ pc' = IF ok THEN "hi_check" ELSE "crashed"
    /\ UNCHANGED << inputVars, cmdVars, npVars, uniqID, procVars, connVars, periodVars, aliveVars,
                    discIdx, reported_first_time, tasks, pubVars,
                    periodFires, aliveFires, nReports >>

(* handle_interrupt(0), lines 1292-1294 and 1296-1298 *)
Main_report ==
    /\ Running /\ pc = "hi_check"
    /\ IF ShouldReport
       THEN StartSendStatus(0) /\ pc' = "hi_set"
       ELSE UNCHANGED << tasks, nReports >> /\ pc' = "idle"
    /\ UNCHANGED << inputVars, cmdVars, npVars, refreshedBy, rpi_security, uniqID, procVars, connVars, periodVars, aliveVars,
                    discIdx, reported_first_time, metricsGen, pubVars,
                    periodFires, aliveFires >>

(* handle_interrupt(0), line 1295 *)
Main_set_reported ==
    /\ Running /\ pc = "hi_set"
    /\ reported_first_time' = TRUE
    /\ pc' = "idle"
    /\ UNCHANGED << inputVars, cmdVars, npVars, refreshedBy, rpi_security, uniqID, procVars, connVars, periodVars, aliveVars,
                    discIdx, metricsGen, tasks, pubVars, periodFires,
                    aliveFires, nReports >>

SetSt(timers, t, st) == [timers EXCEPT ![t].st = st]

(* The PERIOD timer t expires: its thread starts periodTimeoutHandler().    *)
PeriodTimerFire(t) ==
    /\ Running
    /\ t \in Pending(periodTimers)
    /\ periodFires < MaxPeriodFires
    /\ periodFires' = periodFires + 1
    /\ periodTimers' = SetSt(periodTimers, t, "hi_update")
    /\ UNCHANGED << inputVars, cmdVars, npVars, refreshedBy, rpi_security, uniqID, procVars, connVars, aliveVars, pc,
                    discIdx, endPeriodTimer, periodTimeRunningStatus,
                    reported_first_time, metricsGen, tasks, pubVars,
                    aliveFires, nReports >>

(* periodTimeoutHandler() -> handle_interrupt(TIMER_INTERRUPT), line 1291.  *)
(* An exception propagates out of periodTimeoutHandler (1087) and ends the  *)
(* timer thread before line 1088.                                           *)
Period_update_values(t, ok) ==
    /\ Running
    /\ t \in DOMAIN periodTimers /\ periodTimers[t].st = "hi_update"
    /\ update_values(ok)
    /\ refreshedBy' = IF ok THEN Append(refreshedBy, t) ELSE refreshedBy
    /\ periodTimers' = SetSt(periodTimers, t, IF ok THEN "hi_check" ELSE "raised")
    /\ UNCHANGED << inputVars, cmdVars, npVars, uniqID, procVars, connVars, aliveVars, pc,
                    discIdx, endPeriodTimer, periodTimeRunningStatus,
                    reported_first_time, tasks, pubVars, periodFires,
                    aliveFires, nReports >>

(* handle_interrupt(TIMER_INTERRUPT), lines 1292-1294 and 1296-1298 *)
Period_report(t) ==
    /\ Running
    /\ t \in DOMAIN periodTimers /\ periodTimers[t].st = "hi_check"
    /\ IF ShouldReport
       THEN /\ StartSendStatus(t)
            /\ periodTimers' = SetSt(periodTimers, t, "hi_set")
       ELSE /\ UNCHANGED << tasks, nReports >>
            /\ periodTimers' = SetSt(periodTimers, t, "rearm")
    /\ UNCHANGED << inputVars, cmdVars, npVars, refreshedBy, rpi_security, uniqID, procVars, connVars, aliveVars, pc,
                    discIdx, endPeriodTimer, periodTimeRunningStatus,
                    reported_first_time, metricsGen, pubVars,
                    periodFires, aliveFires >>

(* handle_interrupt(TIMER_INTERRUPT), line 1295 *)
Period_set_reported(t) ==
    /\ Running
    /\ t \in DOMAIN periodTimers /\ periodTimers[t].st = "hi_set"
    /\ reported_first_time' = TRUE
    /\ periodTimers' = SetSt(periodTimers, t, "rearm")
    /\ UNCHANGED << inputVars, cmdVars, npVars, refreshedBy, rpi_security, uniqID, procVars, connVars, aliveVars, pc,
                    discIdx, endPeriodTimer, periodTimeRunningStatus,
                    metricsGen, tasks, pubVars, periodFires,
                    aliveFires, nReports >>

(* periodTimeoutHandler(), line 1088: startPeriodTimer(), then the timer    *)
(* thread ends.                                                             *)
Period_rearm(t) ==
    /\ Running
    /\ t \in DOMAIN periodTimers /\ periodTimers[t].st = "rearm"
    /\ startPeriodTimer(SetSt(periodTimers, t, "finished"))
    /\ UNCHANGED << inputVars, cmdVars, npVars, refreshedBy, rpi_security, uniqID, procVars, connVars, aliveVars, pc,
                    discIdx, reported_first_time, metricsGen, tasks,
                    pubVars, periodFires, aliveFires, nReports >>

(* send_status that ends after the snapshot (1199) and leaves the binary    *)
(* sensor to some other schedule.                                           *)
send_status_SnapshotOnly(task) ==
    /\ Running
    /\ BagIn(task, tasks) /\ task.fn = "send_status"
    /\ tasks' = tasks (-) SetToBag({task})
    /\ Publish(SnapshotMsg(task.ts, metricsGen))
    /\ UNCHANGED << inputVars, cmdVars, npVars, refreshedBy, rpi_security, uniqID, procVars, connVars, periodVars, aliveVars,
                    pc, discIdx, reported_first_time, metricsGen,
                    periodFires, aliveFires, nReports >>

(* send_status(timestamp, nothing), 1158-1218, in its own thread: reads the *)
(* metric globals as they are now and starts three threads,                 *)
(* publishMonitorData twice (1199, 1208) and publishSecurityStatus          *)
(* (1214/1218), which publish what send_status built (1263-1272).  The      *)
(* three publish calls are taken with the step that starts them.            *)
send_status(task) ==
    /\ Running
    /\ BagIn(task, tasks) /\ task.fn = "send_status"
    /\ tasks' = tasks (-) SetToBag({task})
    /\ published' = published
                      (+) SetToBag({ SnapshotMsg(task.ts, metricsGen),
                                     SecurityMsg(task.ts, metricsGen),
                                     SecurityStatusMsg(task.ts, metricsGen) })
    /\ retained' = Retain(Retain(Retain(retained,
                                       SnapshotMsg(task.ts, metricsGen)),
                                SecurityMsg(task.ts, metricsGen)),
                         SecurityStatusMsg(task.ts, metricsGen))
    /\ UNCHANGED << inputVars, cmdVars, npVars, refreshedBy, rpi_security, uniqID, procVars, connVars, periodVars, aliveVars,
                    pc, discIdx, reported_first_time, metricsGen,
                    periodFires, aliveFires, nReports >>

(* publishAliveStatus(), 838-840, in its own thread. *)
publishAliveStatus(task) ==
    /\ Running
    /\ BagIn(task, tasks) /\ task.fn = "publish"
    /\ tasks' = tasks (-) SetToBag({task})
    /\ Publish(task.msg)
    /\ UNCHANGED << inputVars, cmdVars, npVars, refreshedBy, rpi_security, uniqID, procVars, connVars, periodVars, aliveVars,
                    pc, discIdx, reported_first_time, metricsGen,
                    periodFires, aliveFires, nReports >>

-----------------------------------------------------------------------------
(* The ALIVE timer chain *)

(* An ALIVE timer whose expiry waits for a handle_interrupt call in         *)
(* progress, as it would if both handlers ran on one thread.                *)
AliveTimerFire_AfterReport(t) ==
    /\ Running
    /\ t \in Pending(aliveTimers)
    /\ aliveFires < MaxAliveFires
    /\ pc \notin {"hi_update", "hi_check", "hi_set"}
    /\ \A p \in DOMAIN periodTimers :
          periodTimers[p].st \notin {"hi_update", "hi_check", "hi_set", "rearm"}
    /\ aliveFires' = aliveFires + 1
    /\ aliveTimers' = SetSt(aliveTimers, t, "handler")
    /\ UNCHANGED << inputVars, cmdVars, npVars, refreshedBy, rpi_security, uniqID, procVars, connVars, periodVars, pc,
                    discIdx, aliveTimer, aliveTimerRunningStatus,
                    reported_first_time, metricsGen, tasks, pubVars,
                    periodFires, nReports >>

(* The ALIVE timer t expires: its thread starts aliveTimeoutHandler().      *)
AliveTimerFire(t) ==
    /\ Running
    /\ t \in Pending(aliveTimers)
    /\ aliveFires < MaxAliveFires
    /\ aliveFires' = aliveFires + 1
    /\ aliveTimers' = SetSt(aliveTimers, t, "handler")
    /\ UNCHANGED << inputVars, cmdVars, npVars, refreshedBy, rpi_security, uniqID, procVars, connVars, periodVars, pc,
                    discIdx, aliveTimer, aliveTimerRunningStatus,
                    reported_first_time, metricsGen, tasks, pubVars,
                    periodFires, nReports >>

(* aliveTimeoutHandler(), 843-846: start the publishAliveStatus thread,     *)
(* then startAliveTimer().                                                  *)
aliveTimeoutHandler(t) ==
    /\ Running
    /\ t \in DOMAIN aliveTimers /\ aliveTimers[t].st = "handler"
    /\ tasks' = tasks (+) SetToBag({PublishTask(OnlineMsg)})
    /\ startAliveTimer(SetSt(aliveTimers, t, "finished"))
    /\ UNCHANGED << inputVars, cmdVars, npVars, refreshedBy, rpi_security, uniqID, procVars, connVars, periodVars, pc,
                    discIdx, reported_first_time, metricsGen, pubVars,
                    periodFires, aliveFires, nReports >>

-----------------------------------------------------------------------------
(* Shutdown *)

(* SIGINT while the main thread sleeps in the loop of 1315-1317:            *)
(* KeyboardInterrupt is raised and the finally block is entered.            *)
KeyboardInterrupt ==
    /\ Running /\ pc = "idle"
    /\ pc' = "cleanup_period"
    /\ UNCHANGED << inputVars, cmdVars, npVars, refreshedBy, rpi_security, uniqID, procVars, connVars, periodVars, aliveVars,
                    discIdx, reported_first_time, metricsGen, tasks,
                    pubVars, periodFires, aliveFires, nReports >>

(* Line 1321 *)
Cleanup_stopPeriodTimer ==
    /\ Running /\ pc = "cleanup_period"
    /\ stopPeriodTimer(periodTimers)
    /\ pc' = "cleanup_alive"
    /\ UNCHANGED << inputVars, cmdVars, npVars, refreshedBy, rpi_security, uniqID, procVars, connVars, aliveVars, discIdx,
                    reported_first_time, metricsGen, tasks, pubVars,
                    periodFires, aliveFires, nReports >>

(* Line 1322; the main thread ends after it. *)
Cleanup_stopAliveTimer ==
    /\ Running /\ pc = "cleanup_alive"
    /\ stopAliveTimer(aliveTimers)
    /\ pc' = "done"
    /\ UNCHANGED << inputVars, cmdVars, npVars, refreshedBy, rpi_security, uniqID, procVars, connVars, periodVars, discIdx,
                    reported_first_time, metricsGen, tasks, pubVars,
                    periodFires, aliveFires, nReports >>

(* SIGTERM while the main thread sleeps in the loop of 1315-1317: the       *)
(* program installs no handler, the process is killed at once (status       *)
(* 128 + 15) and the finally block does not run.                            *)
SigTerm ==
    /\ Running /\ pc = "idle"
    /\ Exit(143)
    /\ UNCHANGED << inputVars, cmdVars, npVars, refreshedBy, rpi_security, uniqID, connVars, periodVars, aliveVars, pc,
                    discIdx, reported_first_time, metricsGen, tasks,
                    pubVars, periodFires, aliveFires, nReports >>

-----------------------------------------------------------------------------
(* The program *)

Next ==
    \/ LoadConfiguration
    \/ \E ok \in BOOLEAN : MqttConnect(ok)
    \/ \E rc \in {0, 5} : on_connect(rc)
    \/ WaitConnected
    \/ PublishDiscovery
    \/ afterMQTTConnect
    \/ \E ok \in BOOLEAN : Main_update_values(ok)
    \/ Main_report
    \/ Main_set_reported
    \/ \E t \in DOMAIN periodTimers : PeriodTimerFire(t)
    \/ \E t \in DOMAIN periodTimers, ok \in BOOLEAN : Period_update_values(t, ok)
    \/ \E t \in DOMAIN periodTimers : Period_report(t)
    \/ \E t \in DOMAIN periodTimers : Period_set_reported(t)
    \/ \E t \in DOMAIN periodTimers : Period_rearm(t)
    \/ \E t \in DOMAIN aliveTimers : AliveTimerFire(t)
    \/ \E t \in DOMAIN aliveTimers : aliveTimeoutHandler(t)
    \/ \E task \in BagToSet(tasks) : send_status(task)
    \/ \E task \in BagToSet(tasks) : publishAliveStatus(task)
    \/ KeyboardInterrupt
    \/ Cleanup_stopPeriodTimer
    \/ Cleanup_stopAliveTimer
    \/ SigTerm

Spec == Init /\ [][Next]_vars

-----------------------------------------------------------------------------
(* The timer functions on their own: startPeriodTimer, stopPeriodTimer,    *)
(* startAliveTimer and stopAliveTimer called in any order, and pending      *)
(* timers expiring (their handlers taken as returning at once), from the    *)
(* state in which the module-level Timer objects have just been created.    *)

nonTimerVars ==
    << inputVars, cmdVars, npVars, refreshedBy, rpi_security, uniqID, pc, procVars, connVars, discIdx, reported_first_time,
       metricsGen, tasks, pubVars, periodFires, aliveFires, nReports >>

Call_startPeriodTimer ==
    /\ Len(periodTimers) <= MaxTimerCalls
    /\ startPeriodTimer(periodTimers)
    /\ UNCHANGED << nonTimerVars, aliveVars >>

Call_stopPeriodTimer ==
    /\ stopPeriodTimer(periodTimers)
    /\ UNCHANGED << nonTimerVars, aliveVars >>

Expire_periodTimer(t) ==
    /\ t \in Pending(periodTimers)
    /\ periodTimers' = SetSt(periodTimers, t, "finished")
    /\ UNCHANGED << nonTimerVars, aliveVars, endPeriodTimer,
                    periodTimeRunningStatus >>

Call_startAliveTimer ==
    /\ Len(aliveTimers) <= MaxTimerCalls
    /\ startAliveTimer(aliveTimers)
    /\ UNCHANGED << nonTimerVars, periodVars >>

Call_stopAliveTimer ==
    /\ stopAliveTimer(aliveTimers)
    /\ UNCHANGED << nonTimerVars, periodVars >>

Expire_aliveTimer(t) ==
    /\ t \in Pending(aliveTimers)
    /\ aliveTimers' = SetSt(aliveTimers, t, "finished")
    /\ UNCHANGED << nonTimerVars, periodVars, aliveTimer,
                    aliveTimerRunningStatus >>

TimerInit == Init /\ ConfigValid

TimerNext ==
    \/ Call_startPeriodTimer
    \/ Call_stopPeriodTimer
    \/ \E t \in DOMAIN periodTimers : Expire_periodTimer(t)
    \/ Call_startAliveTimer
    \/ Call_stopAliveTimer
    \/ \E t \in DOMAIN aliveTimers : Expire_aliveTimer(t)

TimerSpec == TimerInit /\ [][TimerNext]_vars

-----------------------------------------------------------------------------
(* Startup up to the connection handshake, for every config.ini of Configs *)

ConfigInit == InitWith(Configs)

ConfigNext ==
    \/ LoadConfiguration
    \/ \E ok \in BOOLEAN : MqttConnect(ok)
    \/ \E rc \in {0, 5} : on_connect(rc)

ConfigSpec == ConfigInit /\ [][ConfigNext]_vars

-----------------------------------------------------------------------------
(* Startup and the report cycles of a device whose last update and upgrade  *)
(* are as old as each pair of Ages says, without the liveness chain and the *)
(* shutdown.                                                                *)

SecurityInit == InitFrom(DefaultConfigs, {DefaultMac}, Ages) /\ ConfigValid

SecurityNext ==
    \/ LoadConfiguration
    \/ \E ok \in BOOLEAN : MqttConnect(ok)
    \/ \E rc \in {0, 5} : on_connect(rc)
    \/ WaitConnected
    \/ PublishDiscovery
    \/ afterMQTTConnect
    \/ \E ok \in BOOLEAN : Main_update_values(ok)
    \/ Main_report
    \/ Main_set_reported
    \/ \E t \in DOMAIN periodTimers : PeriodTimerFire(t)
    \/ \E t \in DOMAIN periodTimers, ok \in BOOLEAN : Period_update_values(t, ok)
    \/ \E t \in DOMAIN periodTimers : Period_report(t)
    \/ \E t \in DOMAIN periodTimers : Period_set_reported(t)
    \/ \E t \in DOMAIN periodTimers : Period_rearm(t)
    \/ \E task \in BagToSet(tasks) : send_status(task)

SecuritySpec == SecurityInit /\ [][SecurityNext]_vars

-----------------------------------------------------------------------------
(* The program started with each base_topic of BaseTopicChoices *)

TopicInit == InitWith(TopicConfigs)

TopicSpec == TopicInit /\ [][Next]_vars

-----------------------------------------------------------------------------
(* The discovery section on its own: after the startup up to line 938, the  *)
(* announcements of 1021-1075 are published in any order, and the whole     *)
(* section is run up to MaxAnnounce times (an entity is announced again     *)
(* only when every entity has been announced as often as it has), by a      *)
(* device with any of the addresses of Macs.                                *)

Announce(i) ==
    /\ Running /\ pc = "discovery"
    /\ LET n == CopiesIn(DiscoveryMsg(i), published)
       IN  /\ n < MaxAnnounce
           /\ \A j \in 1..NumEntities :
                 CopiesIn(DiscoveryMsg(j), published) >= n
    /\ Publish(DiscoveryMsg(i))
    /\ UNCHANGED << inputVars, cmdVars, npVars, refreshedBy, rpi_security, uniqID, procVars, connVars,
                    periodVars, aliveVars, pc, discIdx, reported_first_time,
                    metricsGen, tasks, periodFires, aliveFires, nReports >>

DiscoveryInit == InitOf(DefaultConfigs, Macs)

DiscoveryNext ==
    \/ LoadConfiguration
    \/ \E ok \in BOOLEAN : MqttConnect(ok)
    \/ \E rc \in {0, 5} : on_connect(rc)
    \/ WaitConnected
    \/ \E i \in 1..NumEntities : Announce(i)

DiscoverySpec == DiscoveryInit /\ [][DiscoveryNext]_vars

-----------------------------------------------------------------------------
(* Messages for the device on the broker.  The client is given two          *)
(* callbacks, on_connect and on_publish (888-889); the program calls        *)
(* subscribe() nowhere, sets no on_message callback and has no table of     *)
(* commands.  A message another client publishes to a command topic of the  *)
(* device is therefore not delivered to the program and no shell command is *)
(* run for it and nothing is logged.  config.ini is read for no command     *)
(* section (158-201): no command name is known to the program.              *)

commands == {}

(* Command names that arrive: one a config.ini of the documented kind would *)
(* list, one it would not, and the synthetic status command.                *)
CommandNames == { "reboot_now", "unregistered_cmd", "status" }

CommandArrives(name) ==
    /\ Running /\ mqtt_client_connected = TRUE
    /\ inbound < MaxInbound
    /\ inbound' = inbound + 1
    /\ unknownInbound' =
          IF name \notin commands /\ name # "status"
          THEN unknownInbound + 1 ELSE unknownInbound
    /\ UNCHANGED << executed, warnings >>
    /\ UNCHANGED << inputVars, npVars, refreshedBy, rpi_security, uniqID, pubVars, procVars, connVars,
                    periodVars, aliveVars, pc, discIdx, reported_first_time,
                    metricsGen, tasks, periodFires, aliveFires, nReports >>

CommandNext ==
    \/ LoadConfiguration
    \/ \E ok \in BOOLEAN : MqttConnect(ok)
    \/ \E rc \in {0, 5} : on_connect(rc)
    \/ WaitConnected
    \/ PublishDiscovery
    \/ \E name \in CommandNames : CommandArrives(name)

CommandSpec == Init /\ [][CommandNext]_vars

-----------------------------------------------------------------------------
(* next_power_of_two(x) of rpi/rpi.py (18-40), called with an argument      *)
(* drawn from NpInputs: every integer up to MaxX and values around the      *)
(* powers of 1024.                                                          *)

MaxX == 40

NpInputs ==
    0..MaxX \cup { 511, 512, 513, 768, 1023, 1024, 1025, 2048, 468349,
                   524288, 524289, 1048576, 1048577, 114638784,
                   536870912, 536870913, 1073741824 }

(* int.bit_length(): the number of bits of the absolute value of n *)
RECURSIVE bit_length(_)
bit_length(n) ==
    IF n = 0 THEN 0
    ELSE 1 + bit_length((IF n < 0 THEN -n ELSE n) \div 2)

(* res = 1 << x.bit_length(), without the decrement of line 35 *)
res_init_NoDecrement(v) == IF v = 0 THEN 1 ELSE 2 ^ bit_length(v)

(* Lines 32-35 *)
res_init(v) == IF v = 0 THEN 1 ELSE 2 ^ bit_length(v - 1)

(* The call, lines 32-36 *)
next_power_of_two_call(v) ==
    /\ np_pc \in {"idle", "returned"}
    /\ np_x' = v
    /\ np_res' = res_init(v)
    /\ np_magnitude' = 0
    /\ np_pc' = "while"

(* One pass of the loop, lines 37-39.  "res /= 1024" is a float division;   *)
(* res is a power of two not below 1024, so the quotient is exact.          *)
next_power_of_two_loop ==
    /\ np_pc = "while"
    /\ np_res >= 1024
    /\ np_res' = np_res \div 1024
    /\ np_magnitude' = np_magnitude + 1
    /\ UNCHANGED << np_x, np_pc >>

(* Line 40: return (int(res), magnitude) *)
next_power_of_two_return ==
    /\ np_pc = "while"
    /\ ~ (np_res >= 1024)
    /\ np_pc' = "returned"
    /\ UNCHANGED << np_x, np_res, np_magnitude >>

progVars ==
    << inputVars, cmdVars, refreshedBy, rpi_security, uniqID, pc, procVars, connVars, discIdx,
       reported_first_time, metricsGen, tasks, pubVars, periodFires,
       aliveFires, nReports, periodVars, aliveVars >>

PowerInit == Init /\ ConfigValid /\ ~ opt_stall

PowerNext ==
    \/ \E v \in NpInputs : next_power_of_two_call(v) /\ UNCHANGED progVars
    \/ next_power_of_two_loop /\ UNCHANGED progVars
    \/ next_power_of_two_return /\ UNCHANGED progVars

PowerSpec == PowerInit /\ [][PowerNext]_vars

-----------------------------------------------------------------------------
(* Claims *)

(* C1: however startPeriodTimer and stopPeriodTimer are called and pending  *)
(* timers expire, at most one reporting timer is pending, the pending one   *)
(* is the timer the global endPeriodTimer refers to (so the next call       *)
(* cancels it), and after a startPeriodTimer call that no expiry of the new *)
(* timer has followed exactly one reporting timer is pending.               *)
C1_RearmLeavesOnePeriodTimer ==
    /\ Cardinality(Pending(periodTimers)) <= 1
    /\ Pending(CancelRef(periodTimers, endPeriodTimer)) = {}
    /\ (periodTimeRunningStatus /\ ~ Fired(periodTimers[endPeriodTimer]))
         => Pending(periodTimers) = {endPeriodTimer}

(* startPeriodTimer was called three times in a row with no expiry between. *)
C1_Witness ==
    /\ Len(periodTimers) = 4
    /\ \A i \in 1..3 : periodTimers[i].st = "cancelled"
    /\ periodTimers[4].st = "pending"

(* C2: the same for the liveness timer: at most one liveness timer is       *)
(* pending, and stopAliveTimer() cancels the pending one (none is pending   *)
(* after it).                                                               *)
C2_RearmLeavesOneAliveTimer ==
    /\ Cardinality(Pending(aliveTimers)) <= 1
    /\ Pending(CancelRef(aliveTimers, aliveTimer)) = {}

(* Number of published messages of bag B that satisfy ... are counted per   *)
(* element of the finite set S.                                             *)
RECURSIVE CopiesOfAll(_, _)
CopiesOfAll(B, S) ==
    IF S = {} THEN 0
    ELSE LET m == CHOOSE x \in S : TRUE
         IN  CopiesIn(m, B) + CopiesOfAll(B, S \ {m})

(* Snapshots of report cycle ts that were published. *)
SnapshotsOf(ts) ==
    CopiesOfAll(published,
                { m \in BagToSet(published) :
                    m.topic = values_topic /\ m.payload.ts = ts })

(* Reports of cycle ts: send_status threads started and not yet run, plus   *)
(* snapshots published.                                                     *)
ReportsOf(ts) == CopiesIn(SendStatusTask(ts), tasks) + SnapshotsOf(ts)

MainLeftAfterMQTTConnect ==
    pc \in {"idle", "cleanup_period", "cleanup_alive", "done", "crashed"}

(* C3: in stall mode at most one report is ever started, reported_first_time *)
(* is true once a report has been started and line 1295 has run, and once a *)
(* timer-fired cycle has ended exactly one report has been started.         *)
C3_StallExactlyOneReport ==
    opt_stall =>
        /\ nReports <= 1
        /\ reported_first_time => nReports = 1
        /\ (\E t \in DOMAIN periodTimers :
                periodTimers[t].st \in {"rearm", "finished", "raised"})
             => nReports = 1

(* C4: afterMQTTConnect schedules the reporting timer at                    *)
(* interval_in_minutes * 60 seconds, and when it has returned a first       *)
(* report has been started and the engine is armed (a reporting timer is    *)
(* pending) or in a timer-fired cycle.                                      *)
C4_StartArmsAndReports ==
    /\ Len(periodTimers) > 1
         => periodTimers[2].interval = config.interval_in_minutes * 60
    /\ MainLeftAfterMQTTConnect
         => /\ ReportsOf(0) = 1
            /\ \E t \in DOMAIN periodTimers :
                  periodTimers[t].st
                      \in {"pending", "hi_update", "hi_check", "hi_set", "rearm"}

(* C5: with stall mode off, every reporting-timer fire whose handler has    *)
(* ended refreshed the metrics, started exactly one report and re-armed the *)
(* timer (a successor timer exists).                                        *)
C5_EveryFireReportsAndRearms ==
    ~ opt_stall =>
        \A t \in DOMAIN periodTimers :
            periodTimers[t].st \in {"finished", "raised"}
                => /\ periodTimers[t].st = "finished"
                   /\ ReportsOf(t) = 1
                   /\ Len(periodTimers) > t

ShutDown == pc = "done" \/ (procState = "exited" /\ exitCode = 143)

(* C6: once the process has shut down (the cleanup of the finally block has *)
(* run, or SIGTERM has ended the process), "offline" has been published to  *)
(* the status topic that carries "online".                                  *)
C6_OfflinePublishedOnShutdown ==
    ShutDown => \E r \in BOOLEAN : BagIn(OfflineMsg(r), published)

AliveHandlersFinished ==
    Cardinality({ t \in DOMAIN aliveTimers : aliveTimers[t].st = "finished" })

(* "online" markers published or handed to a publishAliveStatus thread *)
OnlineMarkers ==
    CopiesIn(OnlineMsg, published) + CopiesIn(PublishTask(OnlineMsg), tasks)

(* C7: the liveness timer and the reporting timer run independently.  A     *)
(* pending liveness timer can fire and a started liveness handler can run   *)
(* whatever the state of the report cycles, and a pending reporting timer   *)
(* can fire whatever the state of the liveness handlers; each liveness      *)
(* handler that has run accounts for one "online" marker (besides the one   *)
(* of the connect) and one new liveness timer.                              *)
C7_TimersRunIndependently ==
    /\ \A t \in Pending(aliveTimers) :
          (Running /\ aliveFires < MaxAliveFires) => ENABLED AliveTimerFire(t)
    /\ \A t \in DOMAIN aliveTimers :
          (Running /\ aliveTimers[t].st = "handler")
              => ENABLED aliveTimeoutHandler(t)
    /\ \A p \in Pending(periodTimers) :
          (Running /\ periodFires < MaxPeriodFires)
              => ENABLED PeriodTimerFire(p)
    /\ OnlineMarkers =
          (IF connResult = "ok" THEN 1 ELSE 0) + AliveHandlersFinished
    /\ \A t \in DOMAIN aliveTimers :
          aliveTimers[t].st = "finished"
              => /\ t < Len(aliveTimers)
                 /\ aliveTimers[t + 1].interval = ALIVE_TIMEOUT_IN_SECONDS
                 /\ aliveTimers[t + 1].st # "new"

(* A liveness handler has run to its end and its marker is published while  *)
(* the main thread's report cycle is still inside update_values.            *)
C7_Witness ==
    /\ pc = "hi_update"
    /\ AliveHandlersFinished >= 1
    /\ CopiesIn(OnlineMsg, published) >= 2
    /\ Pending(aliveTimers) # {}

DiscoveryPublished(i) == CopiesIn(DiscoveryMsg(i), published)

AllDiscoveryPublishedOnce ==
    \A i \in 1..NumEntities : DiscoveryPublished(i) = 1

LivenessTimerStarted == Len(aliveTimers) > 1

ReportingEngineStarted ==
    Len(periodTimers) > 1 \/ nReports > 0 \/ metricsGen > 0

(* C8 as stated: configuration load, broker connect, discovery (each        *)
(* payload exactly once), then liveness timer start and reporting engine    *)
(* start: when the liveness timer has been started or the reporting engine  *)
(* has been started, every discovery payload has been published once.       *)
C8_DiscoveryBeforeBothTimers ==
    /\ connectCalls > 0 => pc # "config"
    /\ (\E i \in 1..NumEntities : DiscoveryPublished(i) > 0)
          => connResult = "ok" /\ connAcks > 0
    /\ \A i \in 1..NumEntities : DiscoveryPublished(i) <= 1
    /\ (LivenessTimerStarted \/ ReportingEngineStarted)
          => AllDiscoveryPublishedOnce

(* C8 amended: configuration load, broker connect, liveness timer start,    *)
(* discovery (each payload exactly once), reporting engine start: a         *)
(* discovery payload is published only after the liveness timer has been    *)
(* started, and when the reporting timer has been started or a report cycle *)
(* has begun every discovery payload has been published exactly once.       *)
C8_DiscoveryBeforeReporting ==
    /\ connectCalls > 0 => pc # "config"
    /\ LivenessTimerStarted => connResult = "ok" /\ connAcks > 0
    /\ (\E i \in 1..NumEntities : DiscoveryPublished(i) > 0)
          => LivenessTimerStarted
    /\ \A i \in 1..NumEntities : DiscoveryPublished(i) <= 1
    /\ ReportingEngineStarted => AllDiscoveryPublishedOnce

(* The first report has been started after the whole startup sequence. *)
C8_Witness ==
    /\ nReports >= 1
    /\ AllDiscoveryPublishedOnce
    /\ LivenessTimerStarted
    /\ Len(periodTimers) > 1

FatalExitBeforeConnect ==
    /\ connectCalls = 0
    /\ pc # "config" => procState = "exited" /\ exitCode # 0

ConnectionFailed == connResult = "raised" \/ lastRc \notin {-1, 0}

(* C10: a connect that raises, or a CONNACK with a non-zero result code,    *)
(* ends the process with a non-zero status; connect was called once only;   *)
(* after a connect that raised nothing has been published; and once the     *)
(* process has ended no message is published, no thread is started and no   *)
(* connect is called.                                                       *)
C10_ConnectionFailureFatal ==
    /\ [](ConnectionFailed
            => /\ procState = "exited" /\ exitCode = 1
               /\ connectCalls = 1
               /\ connResult = "raised"
                    => published = EmptyBag /\ tasks = EmptyBag)
    /\ [][procState = "exited"
            => UNCHANGED << pubVars, tasks, connectCalls, connAcks >>]_vars

(* A refused connection has ended the process. *)
C10_Witness ==
    /\ procState = "exited" /\ exitCode = 1
    /\ lastRc = 5 /\ connectCalls = 1

(* C11: the process ends with status 1 on a fatal configuration or          *)
(* connection error and with status 0 otherwise, that is on SIGTERM or      *)
(* SIGINT; and once the cleanup after SIGINT has run the process has ended  *)
(* with status 0.                                                           *)
C11_ExitCodes ==
    /\ procState = "exited"
         => exitCode = IF ~ ConfigValid \/ ConnectionFailed THEN 1 ELSE 0
    /\ pc = "done" => procState = "exited" /\ exitCode = 0

(* C12: the discovery topic of every announced entity is                    *)
(* {discovery_prefix}/{topic_category}/{sensor_name}/{entity key}/config.   *)
C12_DiscoveryTopicFormat ==
    \A i \in 1..NumEntities :
        BagIn(DiscoveryMsg(i), published)
            => DiscoveryMsg(i).topic =
                  << default_discovery_prefix, topic_category(i), sensor_name,
                     EntityKey(i), "config" >>

(* C13 as stated: for MAC b8:27:eb:12:34:56 the derived unique id is        *)
(* RPi-b827eb123456Mon.                                                     *)
C13_UniqueIdMonSuffix ==
    (rpi_mac = DefaultMac /\ uniqID # "") => uniqID = "RPi-b827eb123456Mon"

(* C13 amended: for MAC b8:27:eb:12:34:56, in lower or upper case, the      *)
(* derived unique id is RPi-b827ebMon123456: "RPi-", the first six          *)
(* characters of the lowercase colon-free MAC, "Mon", then the remaining    *)
(* six; every announcement names it as the device identifier and prefixes   *)
(* its own unique id with it.                                               *)
C13_UniqueIdMonInfix ==
    /\ (rpi_mac \in {DefaultMac, UpperMac} /\ uniqID # "")
          => uniqID = "RPi-b827ebMon123456"
    /\ (rpi_mac = DefaultMac /\ BagIn(DiscoveryMsg(1), published))
          => DiscoveryMsg(1).payload.body["uniq_id"]
                = "RPi-b827ebMon123456_monitor"
    /\ \A i \in 1..NumEntities :
          BagIn(DiscoveryMsg(i), published)
             => DiscoveryMsg(i).payload.body["dev"]["identifiers"]
                   = << uniqID >>

(* The device whose MAC is written in upper case has announced its monitor  *)
(* sensor.                                                                  *)
C13_Witness ==
    /\ rpi_mac = UpperMac
    /\ uniqID = "RPi-b827ebMon123456"
    /\ BagIn(DiscoveryMsg(1), published)

(* The announcements, indexed by entity *)
Announcements == [ i \in 1..NumEntities |-> DiscoveryMsg(i) ]

Announced == { i \in 1..NumEntities : BagIn(DiscoveryMsg(i), published) }

(* C14: the unique id of every announced entity is the device id built from *)
(* the MAC, "_" and the entity key; the unique ids and the discovery topics *)
(* of the announced entities are pairwise distinct, and the broker retains  *)
(* one config message per announced entity: none has overwritten another.   *)
C14_EntityIdsAndTopicsDistinct ==
    LET D == Announcements
        A == { i \in 1..NumEntities : BagIn(D[i], published) }
        id == FormatUniqID(mac_left, mac_right)
    IN  /\ \A i \in A :
              D[i].payload.body["uniq_id"] = id \o "_" \o EntityKey(i)
        /\ \A i, j \in A :
              i # j => /\ D[i].topic # D[j].topic
                       /\ D[i].payload.body["uniq_id"]
                             # D[j].payload.body["uniq_id"]
        /\ Cardinality(retained) = Cardinality(A)
        /\ \A i \in A : D[i] \in retained

(* Every sensor and the binary sensor have been announced. *)
C14_Witness ==
    /\ Announced = 1..NumEntities
    /\ Cardinality(retained) = NumEntities

(* The topic a discovery payload's relative topic t stands for: a leading   *)
(* "~" is the payload's "~" entry (1038).                                   *)
ResolveTopic(body, t) ==
    IF t # << >> /\ Head(t) = "~" THEN body["~"] \o Tail(t) ELSE t

(* C15: every announced discovery payload has an availability topic that    *)
(* resolves to the status topic of the "online" heartbeat and of the last   *)
(* will, and the online and offline values of those messages.               *)
C15_AvailabilityWiring ==
    \A i \in 1..NumEntities :
        LET m == DiscoveryMsg(i)
            b == m.payload.body
        IN  BagIn(m, published)
              => /\ {"avty_t", "pl_avail", "pl_not_avail"} \subseteq DOMAIN b
                 /\ ResolveTopic(b, b["avty_t"]) = OnlineMsg.topic
                 /\ ResolveTopic(b, b["avty_t"]) = OfflineMsg(TRUE).topic
                 /\ b["pl_avail"] = OnlineMsg.payload.tag
                 /\ b["pl_not_avail"] = OfflineMsg(TRUE).payload.tag

(* C16: every published discovery config and every published status        *)
(* message ("online" or "offline" on the status topic) has the retain flag  *)
(* set, and every published snapshot has it cleared.                        *)
C16_RetainFlags ==
    \A m \in BagToSet(published) :
        /\ m.payload.tag = "config" => m.retain
        /\ m.topic = lwt_topic => m.retain
        /\ m.topic = values_topic => ~ m.retain

(* The metric global whose value the i-th sensor shows *)
SensorMetric(i) ==
    << "timestamp", "rpi_cpu_temp", "rpi_cpu_usage_1m", "rpi_cpu_usage_5m",
       "rpi_ram_used", "rpi_fs_used" >>[i]

(* Whether the JSON object "body" has a value at "path" *)
RECURSIVE PathExists(_, _)
PathExists(body, path) ==
    \/ path = << >>
    \/ /\ Head(path) \in DOMAIN body
       /\ PathExists(body[Head(path)], Tail(path))

(* The value a template naming "path" extracts from the JSON object "body"  *)
(* (value_json is the object itself)                                        *)
RECURSIVE Extract(_, _)
Extract(body, path) ==
    IF path = << >> THEN body ELSE Extract(body[Head(path)], Tail(path))

Snapshots == { m \in BagToSet(published) : m.topic = values_topic }

AllRetained ==
    \A i \in 1..NumEntities : \E r \in retained : r.topic = discovery_topic(i)

(* C19: announcing again is idempotent and the order of the announcements   *)
(* is irrelevant: once every entity has been announced, in whatever order,  *)
(* the broker retains exactly the one announcement of each entity; an       *)
(* announcement never replaces a retained message by a different one, and   *)
(* running the section again leaves the retained set as it was.             *)
C19_RediscoveryIdempotent ==
    /\ [](AllRetained
            => retained = { Announcements[i] : i \in 1..NumEntities })
    /\ [][/\ retained \subseteq retained'
          /\ AllRetained => retained' = retained]_vars

(* The discovery section has been run twice. *)
C19_Witness ==
    /\ \A i \in 1..NumEntities : CopiesIn(DiscoveryMsg(i), published) = 2
    /\ Cardinality(retained) = NumEntities

(* C20: every message that has arrived on a command topic of the device has *)
(* been executed, and exactly once: as many shell commands have been run as *)
(* messages have arrived.                                                   *)
C20_CommandExecutedOnce == executed = inbound

(* C21: when a message arrives whose command name is not known (and is not  *)
(* the synthetic status command), nothing is executed, exactly one          *)
(* invalid-command warning is logged, and the process keeps running with    *)
(* its timers and state unchanged.                                          *)
C21_UnknownCommandWarned ==
    [][unknownInbound' = unknownInbound + 1
         => /\ executed' = executed
            /\ warnings' = warnings + 1
            /\ procState' = "running"
            /\ UNCHANGED << periodVars, aliveVars, pc, connVars,
                            reported_first_time, metricsGen, tasks,
                            pubVars >>]_vars

(* Messages of report cycle ts that were published to "topic" *)
PublishedOn(topic, ts) ==
    CopiesOfAll(published,
                { m \in BagToSet(published) :
                    m.topic = topic /\ m.payload.ts = ts })

SecurityTopics == { security_topic, security_status_topic }

PublishedToSecurity ==
    CopiesOfAll(published,
                { m \in BagToSet(published) : m.topic \in SecurityTopics })

PublishedSnapshots ==
    CopiesOfAll(published,
                { m \in BagToSet(published) : m.topic = values_topic })

FollowsTopicPattern(t) ==
    /\ Len(t) >= 3
    /\ t[1] = config.base_topic
    /\ t[2] \in {"sensor", "binary_sensor", "command"}
    /\ t[3] = sensor_name

(* The state, attribute and availability topics a discovery payload names *)
ReferencedTopics(body) ==
    { ResolveTopic(body, body[k]) :
        k \in {"stat_t", "state_topic", "json_attr_t", "avty_t"}
                \cap DOMAIN body }

(* C23: every topic a state, status or attribute message has been published *)
(* to, and every such topic a published discovery payload refers to, is     *)
(* {baseTopic}/{category}/{deviceSlug}/... with the configured base topic   *)
(* and category sensor, binary_sensor or command.                           *)
C23_TopicsUnderBaseTopic ==
    /\ \A m \in BagToSet(published) :
          m.payload.tag # "config" => FollowsTopicPattern(m.topic)
    /\ \A i \in 1..NumEntities :
          BagIn(DiscoveryMsg(i), published)
             => \A t \in ReferencedTopics(DiscoveryMsg(i).payload.body) :
                   FollowsTopicPattern(t)

RECURSIVE IsPowerOfTwo(_)
IsPowerOfTwo(n) ==
    \/ n = 1
    \/ n > 1 /\ n % 2 = 0 /\ IsPowerOfTwo(n \div 2)

(* p is the smallest power of two greater than or equal to v *)
SmallestPowerOfTwoFrom(p, v) ==
    /\ IsPowerOfTwo(p)
    /\ p >= v
    /\ p = 1 \/ p \div 2 < v

C25_FailedCycleStillRearms ==
    \A t \in DOMAIN periodTimers :
        periodTimers[t].st = "raised"
            => \E u \in DOMAIN periodTimers :
                  u > t /\ periodTimers[u].st # "cancelled"

(* C26: every published snapshot serialises the metric values that the      *)
(* refresh of its own report cycle wrote: the refresh whose values the      *)
(* snapshot of cycle ts carries was run by cycle ts.                        *)
C26_SnapshotOfOwnRefresh ==
    \A m \in Snapshots :
        /\ m.payload.gen \in DOMAIN refreshedBy
        /\ refreshedBy[m.payload.gen] = m.payload.ts

InHandleInterrupt == {"hi_update", "hi_check", "hi_set"}

(* Report cycles in progress: handle_interrupt calls that have not returned *)
CyclesInProgress ==
    (IF pc \in InHandleInterrupt THEN 1 ELSE 0)
    + Cardinality({ t \in DOMAIN periodTimers :
                       periodTimers[t].st \in InHandleInterrupt })

(* C27: at most one report cycle (handle_interrupt with its metric refresh) *)
(* is in progress at any time: the initial report on the main thread and    *)
(* the cycles of the reporting-timer fires never overlap.                   *)
C27_OneCycleAtATime == CyclesInProgress <= 1

(* C28: once the cleanup of the finally block (stopPeriodTimer, then        *)
(* stopAliveTimer) has completed, no reporting timer and no liveness timer  *)
(* is pending, and from then on no timer fires and nothing is published or  *)
(* handed to a publishing thread.                                           *)
C28_QuietAfterCleanup ==
    /\ [](pc = "done"
            => Pending(periodTimers) = {} /\ Pending(aliveTimers) = {})
    /\ [][pc = "done"
            => UNCHANGED << periodFires, aliveFires, published, tasks >>]_vars

(* send_status threads that have run *)
SendStatusRuns ==
    nReports
    - CopiesOfAll(tasks, { k \in BagToSet(tasks) : k.fn = "send_status" })

SecurityStatusMsgs ==
    { m \in BagToSet(published) : m.topic = security_status_topic }

ConfigOrSnapshot(m) == m.payload.tag = "config" \/ m.topic = values_topic

(* C30: a discovery payload is published, a liveness timer is started and a *)
(* snapshot is published only while mqtt_client_connected is set; the main  *)
(* thread leaves the wait loop only once on_connect with result code 0 has  *)
(* set the flag; and a non-zero result code ends the process, after which   *)
(* startup does not go on.                                                  *)
C30_NothingBeforeConnected ==
    /\ [][(\/ \E m \in BagToSet(published') :
                 /\ ConfigOrSnapshot(m)
                 /\ CopiesIn(m, published') > CopiesIn(m, published)
           \/ Len(aliveTimers') > Len(aliveTimers))
            => mqtt_client_connected = TRUE /\ lastRc = 0]_vars
    /\ [][(pc = "wait" /\ pc' # "wait")
            => mqtt_client_connected = TRUE /\ lastRc = 0]_vars
    /\ [](Running /\ mqtt_client_connected = FALSE
            => /\ \A m \in BagToSet(published) : ~ ConfigOrSnapshot(m)
               /\ ~ LivenessTimerStarted
               /\ pc \in {"config", "connect", "wait"})
    /\ [](lastRc \notin {-1, 0} => procState = "exited" /\ exitCode # 0)
    /\ [][procState = "exited" => UNCHANGED << pc, pubVars, aliveTimers >>]_vars

(* Startup has gone through the wait loop and the first snapshot is out. *)
C30_Witness ==
    /\ mqtt_client_connected = TRUE /\ lastRc = 0
    /\ AllDiscoveryPublishedOnce
    /\ LivenessTimerStarted
    /\ Snapshots # {}

=============================================================================
